---- MODULE Spec2Model ----
(***************************************************************************)
(* A model of the file parsers of sunpy.timeseries.sources:                *)
(*   EVELightCurve._parse_file, _parse_average_csv, _parse_level_0cs and   *)
(*   peek (eve.py), and NoRHLightCurve._parse_file (norh.py).              *)
(*                                                                         *)
(* A byte string is a sequence of one-character strings, so that the       *)
(* string operations of the code (startswith, in, split, replace, strip,   *)
(* slicing, ==, int, float) are computed on the bytes as the code computes *)
(* them.  A file is a sequence of lines, each line holding its own line    *)
(* ending, as readline() returns them.                                     *)
(*                                                                         *)
(* Numbers read by float() are kept in hundredths (fixed point, two        *)
(* decimals), which is exact for every numeral of the inputs used here.    *)
(***************************************************************************)
EXTENDS Integers, Sequences, FiniteSets, TLC

VARIABLES
    _filename,   \* the class attribute EVELightCurve._filename
    fp,          \* the file handed to the last _parse_file call
    ret,         \* what that call returned or raised
    series,      \* the time series built so far from returned records
    title,       \* the default title chosen by the last peek
    norh_time    \* the time axis built by the last NoRHLightCurve._parse_file

vars == <<_filename, fp, ret, series, title, norh_time>>

(***************************************************************************)
(* Python's bytes operations.                                              *)
(***************************************************************************)
Whitespace == {" ", "\n", "\r", "\t"}

Min(a, b) == IF a < b THEN a ELSE b

RECURSIVE lstrip(_)
lstrip(s) == IF s # <<>> /\ Head(s) \in Whitespace THEN lstrip(Tail(s)) ELSE s

RECURSIVE rstrip(_)
rstrip(s) ==
    IF s # <<>> /\ s[Len(s)] \in Whitespace
    THEN rstrip(SubSeq(s, 1, Len(s) - 1))
    ELSE s

strip(s) == rstrip(lstrip(s))

startswith(s, p) == Len(s) >= Len(p) /\ SubSeq(s, 1, Len(p)) = p

\* p in s
contains(p, s) ==
    \E i \in 1..(Len(s) - Len(p) + 1) : SubSeq(s, i, i + Len(p) - 1) = p

\* index (from 1) of the first c in s, 0 when there is none
RECURSIVE find(_, _)
find(s, c) ==
    IF s = <<>> THEN 0
    ELSE IF Head(s) = c THEN 1
    ELSE LET i == find(Tail(s), c) IN IF i = 0 THEN 0 ELSE i + 1

\* s.split(c): split on every occurrence of the one-byte separator c
RECURSIVE split(_, _)
split(s, c) ==
    LET i == find(s, c)
    IN  IF i = 0 THEN <<s>>
        ELSE <<SubSeq(s, 1, i - 1)>> \o split(SubSeq(s, i + 1, Len(s)), c)

\* s.split(c, 1): split on the first occurrence only
split1(s, c) ==
    LET i == find(s, c)
    IN  IF i = 0 THEN <<s>>
        ELSE <<SubSeq(s, 1, i - 1), SubSeq(s, i + 1, Len(s))>>

\* s.replace(a, b) for one-byte a and b
RECURSIVE replace(_, _, _)
replace(s, a, b) ==
    IF s = <<>> THEN <<>>
    ELSE <<IF Head(s) = a THEN b ELSE Head(s)>> \o replace(Tail(s), a, b)

\* s[a:b] for 0 <= a <= b
slice(s, a, b) == SubSeq(s, a + 1, Min(b, Len(s)))

\* index (from 1) of the last c in s, 0 when there is none
RECURSIVE rfind(_, _)
rfind(s, c) ==
    IF s = <<>> THEN 0
    ELSE IF s[Len(s)] = c THEN Len(s)
    ELSE rfind(SubSeq(s, 1, Len(s) - 1), c)

\* os.path.basename
basename(path) == SubSeq(path, rfind(path, "/") + 1, Len(path))

\* os.path.splitext(p)[0]: the extension starts at the last dot, unless that
\* dot leads the name
splitext0(p) ==
    LET i == rfind(p, ".")
    IN  IF i > 1 /\ i > rfind(p, "/") + 1 THEN SubSeq(p, 1, i - 1) ELSE p

(***************************************************************************)
(* int() and float() of a byte string: the value, or a ValueError.         *)
(***************************************************************************)
DigitChars == {"0", "1", "2", "3", "4", "5", "6", "7", "8", "9"}

DigitVal(c) ==
    CASE c = "0" -> 0 [] c = "1" -> 1 [] c = "2" -> 2 [] c = "3" -> 3
      [] c = "4" -> 4 [] c = "5" -> 5 [] c = "6" -> 6 [] c = "7" -> 7
      [] c = "8" -> 8 [] c = "9" -> 9

AllDigits(s) == s # <<>> /\ \A i \in 1..Len(s) : s[i] \in DigitChars

RECURSIVE Decimal(_)
Decimal(s) ==
    IF s = <<>> THEN 0
    ELSE 10 * Decimal(SubSeq(s, 1, Len(s) - 1)) + DigitVal(s[Len(s)])

Signed(t) == t # <<>> /\ Head(t) \in {"+", "-"}
Unsigned(t) == IF Signed(t) THEN Tail(t) ELSE t
Sign(t) == IF t # <<>> /\ Head(t) = "-" THEN -1 ELSE 1

\* int(s): surrounding whitespace is ignored, a sign is allowed
int(s) ==
    LET t == strip(s)
    IN  IF AllDigits(Unsigned(t))
        THEN [ok |-> TRUE, v |-> Sign(t) * Decimal(Unsigned(t))]
        ELSE [ok |-> FALSE, v |-> 0]

sNaN == <<"N", "a", "N">>
snan == <<"n", "a", "n">>

\* The fraction of a numeral in hundredths: at most two decimals
Hundredths(f) ==
    IF Len(f) = 1 THEN 10 * DigitVal(f[1]) ELSE 10 * DigitVal(f[1]) + DigitVal(f[2])

\* float(s): [sign] digits [. digits], or nan
float(s) ==
    LET t == strip(s)
        u == Unsigned(t)
        p == split1(u, ".")
    IN  IF u \in {sNaN, snan}
        THEN [ok |-> TRUE, nan |-> TRUE, v |-> 0]
        ELSE IF Len(p) = 1 /\ AllDigits(u)
        THEN [ok |-> TRUE, nan |-> FALSE, v |-> Sign(t) * 100 * Decimal(u)]
        ELSE IF Len(p) = 2 /\ AllDigits(p[1]) /\ AllDigits(p[2]) /\ Len(p[2]) <= 2
        THEN [ok |-> TRUE, nan |-> FALSE,
              v |-> Sign(t) * (100 * Decimal(p[1]) + Hundredths(p[2]))]
        ELSE [ok |-> FALSE, nan |-> FALSE, v |-> 0]

(***************************************************************************)
(* Python values.  A call ends by returning a value or raising; a returned *)
(* tuple is the sequence of its components, each tagged with its type.     *)
(***************************************************************************)
Return(components) == [kind |-> "return", exc |-> "", value |-> components]
ReturnNone == [kind |-> "None", exc |-> "", value |-> <<>>]
Raise(e) == [kind |-> "raise", exc |-> e, value |-> <<>>]

Str(s) == [type |-> "str", s |-> s]
OrderedDict(items) == [type |-> "OrderedDict", items |-> items]
DataFrame(columns, index, data) ==
    [type |-> "DataFrame", columns |-> columns, index |-> index, data |-> data]

\* a float cell of a table; numpy.nan is the no-data marker
Num(v) == [k |-> "num", v |-> v]
NaN == [k |-> "nan", v |-> 0]
Obj == [k |-> "object", v |-> 0]

\* d[k] = v on an ordered mapping kept as a sequence of <<key, value>>
SetItem(d, k, v) ==
    IF \E i \in 1..Len(d) : d[i][1] = k
    THEN [i \in 1..Len(d) |-> IF d[i][1] = k THEN <<k, v>> ELSE d[i]]
    ELSE Append(d, <<k, v>>)

HasKey(d, k) == \E i \in 1..Len(d) : d[i][1] = k
GetItem(d, k) == d[CHOOSE i \in 1..Len(d) : d[i][1] = k][2]

(***************************************************************************)
(* The byte literals of eve.py.                                            *)
(***************************************************************************)
bDate == <<"D", "a", "t", "e">>
bSemicolon == <<";">>
bMissingData ==
    <<";", " ", "M", "i", "s", "s", "i", "n", "g", " ", "d", "a", "t", "a", ":">>
bFormat == <<";", " ", "F", "o", "r", "m", "a", "t", ":">>
bColumnDescriptions ==
    <<";", " ", "C", "o", "l", "u", "m", "n", " ", "d", "e", "s", "c", "r", "i",
      "p", "t", "i", "o", "n", "s", ":">>
bFormatLine == bFormat \o <<"\n">>
bColumnDescriptionsLine == bColumnDescriptions \o <<"\n">>
bCreated == <<"C", "r", "e", "a", "t", "e", "d">>
bSource == <<"S", "o", "u", "r", "c", "e">>

(***************************************************************************)
(* _parse_level_0cs, eve.py lines 130-204.                                 *)
(***************************************************************************)
\* lines 137-145: the header is the leading run of lines that start with ";"
RECURSIVE HeaderLen(_)
HeaderLen(lines) ==
    IF lines # <<>> /\ startswith(Head(lines), bSemicolon)
    THEN 1 + HeaderLen(Tail(lines))
    ELSE 0

\* lines 133-134, 141-143: every header line is tested; a later declaration
\* overwrites an earlier one
RECURSIVE MissingData(_, _)
MissingData(header, acc) ==
    IF header = <<>> THEN acc
    ELSE MissingData(Tail(header),
            IF contains(bMissingData, Head(header))
            THEN [is_missing_data |-> TRUE,
                  missing_data_val |-> strip(split(Head(header), ":")[2])]
            ELSE acc)

NoMissingData == [is_missing_data |-> FALSE, missing_data_val |-> snan]

\* the key of a header line: the text before the first ":", ";" blanked, trimmed
MetaKey(hline) == strip(replace(split(hline, ":")[1], ";", " "))

\* lines 152-154: Created and Source lines split on the first ":" only
MetaValueFirst(hline) == strip(split1(hline, ":")[2])

\* line 156: every other line is split on every ":" and the second piece kept
MetaValueEvery(hline) == strip(split(hline, ":")[2])

\* line 149: the two lines left out of meta
IsStructuralLine(hline) == hline = bFormatLine \/ hline = bColumnDescriptionsLine

\* lines 151-154: a Created or Source line without ":" has no second piece, and
\* indexing it raises IndexError
MetaRaises(header) ==
    \E i \in 1..Len(header) :
        /\ ~IsStructuralLine(header[i])
        /\ contains(bCreated, header[i]) \/ contains(bSource, header[i])
        /\ ~contains(<<":">>, header[i])

\* lines 147-156, for a header on which they do not raise
RECURSIVE Meta(_, _)
Meta(header, meta) ==
    IF header = <<>> THEN meta
    ELSE LET hline == Head(header)
         IN  Meta(Tail(header),
                IF IsStructuralLine(hline) THEN meta
                ELSE IF contains(bCreated, hline) \/ contains(bSource, hline)
                THEN SetItem(meta, MetaKey(hline), MetaValueFirst(hline))
                ELSE IF contains(<<":">>, hline)
                THEN SetItem(meta, MetaKey(hline), MetaValueEvery(hline))
                ELSE meta)

\* lines 158-165: the names between the two markers.  Each line is tested for
\* the closing marker first, then appended if the region is open, then tested
\* for the opening marker.
\* (a variant of Fields that tests for the closing marker after appending,
\* so that the "; Format:" line is taken for a field name)
RECURSIVE FieldsCloseLast(_, _, _)
FieldsCloseLast(header, fieldnames_start, fields) ==
    IF header = <<>> THEN fields
    ELSE LET hline == Head(header)
             open == IF startswith(hline, bFormat) THEN FALSE ELSE fieldnames_start
         IN  FieldsCloseLast(Tail(header),
                    IF startswith(hline, bColumnDescriptions) THEN TRUE ELSE open,
                    IF fieldnames_start THEN Append(fields, MetaKey(hline)) ELSE fields)

RECURSIVE Fields(_, _, _)
Fields(header, fieldnames_start, fields) ==
    IF header = <<>> THEN fields
    ELSE LET hline == Head(header)
             open == IF startswith(hline, bFormat) THEN FALSE ELSE fieldnames_start
         IN  Fields(Tail(header),
                    IF startswith(hline, bColumnDescriptions) THEN TRUE ELSE open,
                    IF open THEN Append(fields, MetaKey(hline)) ELSE fields)

\* datetime.datetime(year, month, day, hour, minute)
IsLeap(y) == y % 4 = 0 /\ (y % 100 # 0 \/ y % 400 = 0)
DaysIn(y, m) ==
    IF m = 2 THEN (IF IsLeap(y) THEN 29 ELSE 28)
    ELSE IF m \in {4, 6, 9, 11} THEN 30 ELSE 31

datetime(year, month, day, hour, minute) ==
    IF /\ year \in 1..9999
       /\ month \in 1..12
       /\ day \in 1..DaysIn(year, month)
       /\ hour \in 0..23
       /\ minute \in 0..59
    THEN [ok |-> TRUE, year |-> year, month |-> month, day |-> day,
          hour |-> hour, minute |-> minute]
    ELSE [ok |-> FALSE, year |-> 0, month |-> 0, day |-> 0, hour |-> 0, minute |-> 0]

\* (a variant of parser that reads the minutes from x[1:3])
parserShifted(year, month, day, x) ==
    LET hh == int(slice(x, 0, 2))
        mm == int(slice(x, 1, 3))
    IN  IF hh.ok /\ mm.ok
        THEN datetime(year, month, day, hh.v, mm.v)
        ELSE datetime(0, 0, 0, 0, 0)

\* line 179: parser = lambda x: datetime(year, month, day, int(x[0:2]), int(x[2:4]))
parser(year, month, day, x) ==
    LET hh == int(slice(x, 0, 2))
        mm == int(slice(x, 2, 4))
    IN  IF hh.ok /\ mm.ok
        THEN datetime(year, month, day, hh.v, mm.v)
        ELSE datetime(0, 0, 0, 0, 0)

(***************************************************************************)
(* pandas.read_csv as line 181 calls it: python engine, separator a run of *)
(* whitespace, no header row, names=fields, index_col=0, and a date_parser *)
(* (which turns parse_dates on for the index column).                      *)
(***************************************************************************)
\* a line without its line terminator
RECURSIVE chomp(_)
chomp(s) ==
    IF s # <<>> /\ s[Len(s)] \in {"\n", "\r"}
    THEN chomp(SubSeq(s, 1, Len(s) - 1))
    ELSE s

\* index (from 1) of the first whitespace byte of s, 0 when there is none
RECURSIVE findspace(_)
findspace(s) ==
    IF s = <<>> THEN 0
    ELSE IF Head(s) \in Whitespace THEN 1
    ELSE LET i == findspace(Tail(s)) IN IF i = 0 THEN 0 ELSE i + 1

\* re.split on runs of whitespace
RECURSIVE resplit(_)
resplit(s) ==
    LET i == findspace(s)
    IN  IF i = 0 THEN <<s>>
        ELSE <<SubSeq(s, 1, i - 1)>> \o resplit(lstrip(SubSeq(s, i, Len(s))))

\* the rows of the body, blank lines skipped
RECURSIVE TokenRows(_)
TokenRows(lines) ==
    IF lines = <<>> THEN <<>>
    ELSE IF chomp(Head(lines)) = <<>> THEN TokenRows(Tail(lines))
    ELSE <<resplit(chomp(Head(lines)))>> \o TokenRows(Tail(lines))

\* a column is numeric when every token of it is a numeral or an NA marker
IsNA(tok) == tok = <<>> \/ float(tok).nan
ColumnIsNumeric(rows, j) ==
    \A r \in 1..Len(rows) : j <= Len(rows[r]) => (IsNA(rows[r][j]) \/ float(rows[r][j]).ok)

\* the cell read from token j of a row; short rows are padded with NaN
Cell(rows, r, j) ==
    IF j > Len(rows[r]) \/ IsNA(rows[r][j]) THEN NaN
    ELSE IF ColumnIsNumeric(rows, j) THEN Num(float(rows[r][j]).v)
    ELSE Obj

read_csv(lines, names, year, month, day) ==
    LET rows == TokenRows(lines)
        \* more tokens in the first row than names: the first column is an
        \* unnamed index and every name is a data column
        implicit == rows # <<>> /\ Len(rows[1]) > Len(names)
        col_len == IF implicit THEN Len(names) + 1 ELSE Len(names)
        columns == IF implicit \/ names = <<>> THEN names ELSE Tail(names)
        index == [r \in 1..Len(rows) |-> parser(year, month, day, rows[r][1])]
    IN  IF rows = <<>> /\ names = <<>> THEN Raise("EmptyDataError")
        ELSE IF \E r \in 1..Len(rows) : Len(rows[r]) > col_len THEN Raise("ParserError")
        ELSE IF \E r \in 1..Len(rows) : ~index[r].ok THEN Raise("ValueError")
        ELSE Return(<<DataFrame(columns, index,
                [r \in 1..Len(rows) |->
                    [j \in 1..Len(columns) |-> Cell(rows, r, j + 1)]])>>)

\* lines 182-183: data[data == float(missing_data_val)] = numpy.nan
MaskCell(cell, val) == IF cell.k = "num" /\ ~val.nan /\ cell.v = val.v THEN NaN ELSE cell

\* (a variant of MaskMissing that masks the first data column only)
MaskFirstColumn(data, val) ==
    [r \in 1..Len(data) |->
        [j \in 1..Len(data[r]) |->
            IF j = 1 THEN MaskCell(data[r][j], val) ELSE data[r][j]]]

MaskMissing(data, val) ==
    [r \in 1..Len(data) |-> [j \in 1..Len(data[r]) |-> MaskCell(data[r][j], val)]]

\* lines 186-202
units ==
    [type |-> "OrderedDict",
     items |-> << <<"XRS-B proxy", "">>, <<"XRS-A proxy", "">>, <<"SEM proxy", "">>,
                  <<"0.1-7ESPquad", "W/m2">>, <<"17.1ESP", "W/m2">>,
                  <<"25.7ESP", "W/m2">>, <<"30.4ESP", "W/m2">>, <<"36.6ESP", "W/m2">>,
                  <<"darkESP", "ct">>, <<"121.6MEGS-P", "W/m2">>, <<"darkMEGS-P", "ct">>,
                  <<"q0ESP", "">>, <<"q1ESP", "">>, <<"q2ESP", "">>, <<"q3ESP", "">>,
                  <<"CMLat", "W/m2">>, <<"CMLon", "W/m2">> >>]

_parse_level_0cs(lines) ==
    LET nh == HeaderLen(lines)
        header == SubSeq(lines, 1, nh)
        \* the first line that is no header line; readline() gives b"" at the end
        line == IF nh < Len(lines) THEN lines[nh + 1] ELSE <<>>
        md == MissingData(header, NoMissingData)
        date_parts == split(line, " ")
        year == int(date_parts[1])
        month == int(date_parts[3])
        day == int(date_parts[4])
        csv == read_csv(SubSeq(lines, nh + 2, Len(lines)), Fields(header, FALSE, <<>>),
                        year.v, month.v, day.v)
        val == float(md.missing_data_val)
        df == csv.value[1]
    IN  IF MetaRaises(header) THEN Raise("IndexError")
        ELSE IF ~year.ok THEN Raise("ValueError")
        ELSE IF Len(date_parts) < 3 THEN Raise("IndexError")
        ELSE IF ~month.ok THEN Raise("ValueError")
        ELSE IF Len(date_parts) < 4 THEN Raise("IndexError")
        ELSE IF ~day.ok THEN Raise("ValueError")
        ELSE IF csv.kind = "raise" THEN csv
        ELSE IF md.is_missing_data /\ ~val.ok THEN Raise("ValueError")
        ELSE Return(<<IF md.is_missing_data
                      THEN DataFrame(df.columns, df.index, MaskMissing(df.data, val))
                      ELSE df,
                      OrderedDict(Meta(header, <<>>)),
                      units>>)

(***************************************************************************)
(* _parse_average_csv, eve.py lines 123-127.                               *)
(***************************************************************************)
RECURSIVE CommaRows(_)
CommaRows(lines) ==
    IF lines = <<>> THEN <<>>
    ELSE IF chomp(Head(lines)) = <<>> THEN CommaRows(Tail(lines))
    ELSE <<split(chomp(Head(lines)), ",")>> \o CommaRows(Tail(lines))

\* read_csv(fp, sep=",", index_col=0, parse_dates=True): the first row names
\* the columns, the first column is the index (kept here as its date text)
read_csv_average(lines) ==
    LET all == CommaRows(lines)
        names == Head(all)
        rows == Tail(all)
    IN  IF all = <<>> THEN Raise("EmptyDataError")
        ELSE IF \E r \in 1..Len(rows) : Len(rows[r]) > Len(names) THEN Raise("ParserError")
        ELSE Return(<<DataFrame(Tail(names),
                [r \in 1..Len(rows) |-> rows[r][1]],
                [r \in 1..Len(rows) |->
                    [j \in 1..(Len(names) - 1) |-> Cell(rows, r, j + 1)]])>>)

\* line 127: return "", read_csv(...)
_parse_average_csv(lines) ==
    LET csv == read_csv_average(lines)
    IN  IF csv.kind = "raise" THEN csv
        ELSE Return(<<Str(<<>>), csv.value[1]>>)

(***************************************************************************)
(* EVELightCurve._parse_file, eve.py lines 106-121, but for the assignment *)
(* to cls._filename, which is in the action ParseFile.                     *)
(***************************************************************************)
_parse_file(lines) ==
    LET line1 == IF lines = <<>> THEN <<>> ELSE lines[1]
    IN  IF startswith(line1, bDate) THEN _parse_average_csv(lines)
        ELSE IF startswith(line1, bSemicolon) THEN _parse_level_0cs(lines)
        ELSE ReturnNone

\* The time series the caller builds from a returned (data, meta, units): it
\* is named after its own file.
IsRecord(r) ==
    r.kind = "return" /\ Len(r.value) = 3 /\ r.value[1].type = "DataFrame"

TimeSeries(r, filepath) == [source |-> basename(filepath), columns |-> r.value[1].columns]

(***************************************************************************)
(* EVELightCurve.peek, eve.py lines 86-94: the default title.              *)
(***************************************************************************)
None == [is_none |-> TRUE, s |-> <<>>]
Some(s) == [is_none |-> FALSE, s |-> s]

tEVE1minute ==
    <<"E", "V", "E", " ", "(", "1", " ", "m", "i", "n", "u", "t", "e", " ",
      "d", "a", "t", "a", ")">>
tEVEAverages == <<"E", "V", "E", " ", "A", "v", "e", "r", "a", "g", "e", "s">>

\* self._filename is found on the class: no instance has the attribute
peek_title(ts, cls_filename) ==
    IF Len(ts.columns) > 1 THEN tEVE1minute
    ELSE IF ~cls_filename.is_none
         THEN splitext0(replace(cls_filename.s, "_", " "))
         ELSE tEVEAverages

(***************************************************************************)
(* NoRHLightCurve._parse_file, norh.py lines 89-112.  A FITS file is its   *)
(* header (the start time of DATE-OBS and CRVAL1 in seconds, the cadence   *)
(* CDELT1 as a fraction num/den) and its samples.  Times are fractions of  *)
(* a second, <<numerator, denominator>>.                                   *)
(***************************************************************************)
\* line 103: np.linspace(0, length-1, length/cadence); the number of points
\* is the quotient truncated to an integer
linspace_num(length, cadence) == (length * cadence.den) \div cadence.num

sec_array(length, cadence) ==
    LET num == linspace_num(length, cadence)
    IN  IF num = 1 THEN << <<0, 1>> >>
        ELSE [i \in 1..num |-> <<(i - 1) * (length - 1), num - 1>>]

\* lines 105-107: obs_start_time + timedelta(0, s)
NorhTime(obs_start_time, secs) ==
    [i \in 1..Len(secs) |-> <<obs_start_time * secs[i][2] + secs[i][1], secs[i][2]>>]

\* line 112: the frame needs one index entry per sample
norh_DataFrame(data, index, header) ==
    IF Len(index) # Len(data) THEN Raise("ValueError")
    ELSE Return(<<DataFrame(<<"Correlation Coefficient">>, index,
                            [r \in 1..Len(data) |-> <<Num(data[r])>>]),
                  OrderedDict(header),
                  OrderedDict(<< <<"Correlation Coefficient", "">> >>)>>)

(***************************************************************************)
(* The input files.                                                        *)
(***************************************************************************)
\* the header lines of the input files
hMissing99 ==
    <<";", " ", "M", "i", "s", "s", "i", "n", "g", " ", "d", "a", "t", "a",
      ":", " ", "-", "9", "9", "\n">>
hMissing0 ==
    <<";", " ", "M", "i", "s", "s", "i", "n", "g", " ", "d", "a", "t", "a",
      ":", " ", "0", "\n">>
hFieldA ==
    <<";", " ", " ", " ", " ", "A", ":", " ", "f", "i", "r", "s", "t",
      "\n">>
hFieldB ==
    <<";", " ", " ", " ", " ", "B", ":", " ", "s", "e", "c", "o", "n", "d",
      "\n">>
hKey == <<";", " ", "L", "e", "v", "e", "l", ":", " ", "0", "C", "S", "\n">>
hTime ==
    <<";", " ", "T", "i", "m", "e", ":", " ", "1", "2", ":", "3", "0",
      "\n">>
hCreated ==
    <<";", " ", "C", "r", "e", "a", "t", "e", "d", ":", " ", "1", "2", ":",
      "3", "0", "\n">>
hSource ==
    <<";", " ", "S", "o", "u", "r", "c", "e", ":", " ", "a", ":", "b",
      "\n">>
hSourceBare ==
    <<";", " ", "S", "o", "u", "r", "c", "e", " ", "S", "D", "O", "\n">>
hBlank == <<";", "\n">>
hFormatCRLF == <<";", " ", "F", "o", "r", "m", "a", "t", ":", "\r", "\n">>
hFormatText ==
    <<";", " ", "F", "o", "r", "m", "a", "t", ":", " ", "a", "s", " ", "b",
      "e", "l", "o", "w", "\n">>
hColumnCRLF ==
    <<";", " ", "C", "o", "l", "u", "m", "n", " ", "d", "e", "s", "c", "r",
      "i", "p", "t", "i", "o", "n", "s", ":", "\r", "\n">>
hFormatTight == <<";", "F", "o", "r", "m", "a", "t", ":", "\n">>

\* the line YYYY DOY MM DD that follows the header
dateLine ==
    <<"2", "0", "1", "3", " ", "0", "1", "5", " ", "0", "1", " ", "1", "5",
      "\n">>
dateLineLeap ==
    <<"2", "0", "1", "2", " ", "0", "6", "0", " ", "0", "2", " ", "2", "9",
      "\n">>
dateLineMonth13 ==
    <<"2", "0", "1", "3", " ", "0", "1", "5", " ", "1", "3", " ", "1", "5",
      "\n">>
dateLineTwoSpaces ==
    <<"2", "0", "1", "3", " ", " ", "0", "0", "5", " ", "0", "1", " ", "1",
      "5", "\n">>

\* first lines of other kinds of file
csvHead == <<"D", "a", "t", "e", ",", "X", "\n">>
csvRow ==
    <<"2", "0", "1", "3", "-", "0", "1", "-", "1", "5", ",", "1", ".", "5",
      "\n">>
csvHeadLower == <<"d", "a", "t", "e", ",", "X", "\n">>
hashLine == <<"#", " ", "E", "V", "E", "\n">>
spaceLine == <<" ", ";", " ", "E", "V", "E", "\n">>

\* file paths
pathA == <<"d", "/", "e", "v", "e", "_", "a", ".", "t", "x", "t">>
pathB == <<"e", "v", "e", "_", "b", ".", "t", "x", "t">>

\* tokens of body rows
t0000 == <<"0", "0", "0", "0">>
t0130 == <<"0", "1", "3", "0">>
t2359 == <<"2", "3", "5", "9">>
t130 == <<"1", "3", "0">>
t01305 == <<"0", "1", "3", "0", "5">>
t1a30 == <<"1", "a", "3", "0">>
t2460 == <<"2", "4", "6", "0">>
t1 == <<"1">>
vM99 == <<"-", "9", "9">>
vM99p0 == <<"-", "9", "9", ".", "0">>
v3p2 == <<"3", ".", "2">>
v0 == <<"0">>
v1 == <<"1">>
v2 == <<"2">>
v3 == <<"3">>
v4 == <<"4">>

\* a body row: its tokens separated by one blank
RECURSIVE Row(_)
Row(tokens) ==
    IF Len(tokens) = 1 THEN Head(tokens) \o <<"\n">>
    ELSE Head(tokens) \o <<" ">> \o Row(Tail(tokens))

\* all sequences over S of length lo..hi
SeqsOf(S, lo, hi) == UNION {[1..n -> S] : n \in lo..hi}

File(path, lines) == [path |-> path, lines |-> lines]
NoFile == File(<<>>, <<>>)

\* the bounds of the input sets
MaxSeries == 2
MaxHeaderLines == 2
MaxFieldLines == 4
MaxCols == 2
MaxRows == 2
MaxSamples == 6

DigitTok(n) == <<CHOOSE c \in DigitChars : DigitVal(c) = n>>

\* a well-formed header with the fields A and B, and one with A alone
headerAB == <<bColumnDescriptionsLine, hFieldA, hFieldB, bFormatLine>>
headerA == <<bColumnDescriptionsLine, hFieldA, bFormatLine>>

\* Files of every kind the dispatcher can meet, under two paths
DispatchContents ==
    { <<csvHead, csvRow>>,
      <<csvHeadLower, csvRow>>,
      headerA \o <<dateLine, Row(<<t0000, v1>>)>>,
      headerAB \o <<dateLine, Row(<<t0000, v1, v2>>)>>,
      <<hashLine>>,
      <<spaceLine>>,
      <<dateLine, Row(<<t0000, v1>>)>>,
      <<>> }

DispatchFiles == {File(p, c) : p \in {pathA, pathB}, c \in DispatchContents}

\* Leveled files whose header has any lines before a well-formed field region
HeaderCatalogue ==
    { hMissing99, hKey, hTime, hCreated, hSource, hSourceBare, hBlank,
      hFormatCRLF, hFormatText, hColumnCRLF, hFormatTight,
      bFormatLine, bColumnDescriptionsLine }

HeaderFiles ==
    { File(pathA, pre \o headerA \o <<dateLine, Row(<<t0000, v1>>)>>) :
        pre \in SeqsOf(HeaderCatalogue, 0, MaxHeaderLines) }

\* Leveled files with any arrangement of markers and field lines, and two
\* body rows of k value tokens each: row r holds the numerals r, r+1, ...
FieldCatalogue == {bColumnDescriptionsLine, bFormatLine, hFieldA, hFieldB, hKey}

ValueRow(r, k) == [j \in 1..k |-> DigitTok(r + j - 1)]

FieldFiles ==
    { File(pathA, h \o <<dateLine, Row(<<t0000>> \o ValueRow(1, k)),
                                   Row(<<t0130>> \o ValueRow(2, k))>>) :
        h \in SeqsOf(FieldCatalogue, 0, MaxFieldLines), k \in 1..MaxCols }

\* Leveled files with any time tokens in their rows
TimeTokens == {t0000, t0130, t2359, t130, t01305, t1a30, t2460, t1}
DateLines == {dateLine, dateLineLeap, dateLineMonth13, dateLineTwoSpaces}

TimeFiles ==
    { File(pathA, headerA \o <<d>> \o [r \in 1..Len(ts) |-> Row(<<ts[r], DigitTok(r)>>)]) :
        d \in DateLines, ts \in SeqsOf(TimeTokens, 1, MaxRows) }

\* Leveled files with two data columns of any value tokens, the sentinel
\* declared nowhere, before the field region, after it, or twice
ValueTokens == {vM99, vM99p0, v3p2, v0, sNaN}
MissingHeaders ==
    { headerAB,
      <<hMissing99>> \o headerAB,
      headerAB \o <<hMissing99>>,
      <<hMissing99>> \o headerAB \o <<hMissing0>> }

TimeTok(r) == <<"0", "0", "0">> \o DigitTok(r)

MissingFiles ==
    { File(pathA, h \o <<dateLine>> \o
                  [r \in 1..Len(vs) |-> Row(<<TimeTok(r), vs[r][1], vs[r][2]>>)]) :
        h \in MissingHeaders,
        vs \in SeqsOf(ValueTokens \X ValueTokens, 1, MaxRows) }

\* NoRH FITS files: the start time in seconds, the cadence CDELT1 as a
\* fraction of a second, and the samples
Cadences == { [num |-> 1, den |-> 1], [num |-> 2, den |-> 1],
              [num |-> 3, den |-> 1], [num |-> 1, den |-> 2] }

FitsFiles ==
    { [path |-> pathB, start |-> t, CDELT1 |-> c, data |-> [i \in 1..n |-> i]] :
        t \in {0, 30, 3600}, c \in Cadences, n \in 0..MaxSamples }

(***************************************************************************)
(* The state machine.                                                      *)
(***************************************************************************)
NotCalled == [kind |-> "init", exc |-> "", value |-> <<>>]
NoTitle == [of |-> 0, text |-> <<>>]

InitWith(files) ==
    /\ _filename = None
    /\ fp \in files
    /\ ret = NotCalled
    /\ series = <<>>
    /\ title = NoTitle
    /\ norh_time = <<>>

Init == InitWith({NoFile})

\* EVELightCurve._parse_file(f.path), and the series built from its record
ParseFile(f) ==
    /\ Len(series) < MaxSeries
    /\ _filename' = Some(basename(f.path))
    /\ fp' = f
    /\ ret' = _parse_file(f.lines)
    /\ series' = IF IsRecord(ret') THEN Append(series, TimeSeries(ret', f.path))
                 ELSE series
    /\ UNCHANGED <<title, norh_time>>

\* series[i].peek() with no column and no title given
Peek(i) ==
    /\ title' = [of |-> i, text |-> peek_title(series[i], _filename)]
    /\ UNCHANGED <<_filename, fp, ret, series, norh_time>>

\* NoRHLightCurve._parse_file(f.path).  columns=('Correlation Coefficient') is
\* a plain string, which pandas may refuse as a column index (TypeError).
NoRHParseFile(f) ==
    /\ norh_time' = NorhTime(f.start, sec_array(Len(f.data), f.CDELT1))
    /\ fp' = f
    /\ \E refuses \in BOOLEAN :
         ret' = IF refuses THEN Raise("TypeError")
                ELSE norh_DataFrame(f.data, norh_time',
                                    << <<"DATE-OBS", f.start>>, <<"CDELT1", f.CDELT1>> >>)
    /\ UNCHANGED <<_filename, series, title>>

\* one call on the file drawn at the start
ParseOnce == ret.kind = "init" /\ ParseFile(fp)
NoRHParseOnce == ret.kind = "init" /\ NoRHParseFile(fp)

Next ==
    \/ \E f \in DispatchFiles : ParseFile(f)
    \/ \E i \in 1..Len(series) : Peek(i)

Spec == Init /\ [][Next]_vars

SpecHeader == InitWith(HeaderFiles) /\ [][ParseOnce]_vars
SpecFields == InitWith(FieldFiles) /\ [][ParseOnce]_vars
SpecTime == InitWith(TimeFiles) /\ [][ParseOnce]_vars
SpecMissing == InitWith(MissingFiles) /\ [][ParseOnce]_vars
SpecNoRH == InitWith(FitsFiles) /\ [][NoRHParseOnce]_vars

(***************************************************************************)
(* What the claims speak of, read off the input file of the last call.     *)
(***************************************************************************)
Called == ret.kind # "init"
FirstLine == IF fp.lines = <<>> THEN <<>> ELSE fp.lines[1]
HeaderOf(f) == SubSeq(f.lines, 1, HeaderLen(f.lines))
BodyRows(f) == TokenRows(SubSeq(f.lines, HeaderLen(f.lines) + 2, Len(f.lines)))
Table == ret.value[1]
MetaItems == ret.value[2].items

(***************************************************************************)
(* C1.  _parse_file selects exactly one outcome from the first line: a     *)
(* first line beginning with "Date" gives what the Averages parser gives,  *)
(* one beginning with ";" what the Leveled parser gives, and any other     *)
(* first line (an empty file too) raises UnrecognizedFormat: nothing, and  *)
(* no None, is returned.                                                   *)
(***************************************************************************)
C1_Dispatch ==
    Called =>
        /\ startswith(FirstLine, bDate) => ret = _parse_average_csv(fp.lines)
        /\ startswith(FirstLine, bSemicolon) => ret = _parse_level_0cs(fp.lines)
        /\ ~startswith(FirstLine, bDate) /\ ~startswith(FirstLine, bSemicolon)
              => ret.kind = "raise" /\ ret.exc = "UnrecognizedFormat"

(***************************************************************************)
(* C2.  Whatever a parser returns is the canonical record: the table       *)
(* first, the metadata mapping second, the units third; for an Averages    *)
(* file the metadata mapping is empty.                                     *)
(***************************************************************************)
C2_CanonicalShape ==
    ret.kind = "return" =>
        /\ Len(ret.value) = 3
        /\ ret.value[1].type = "DataFrame"
        /\ ret.value[2].type = "OrderedDict"
        /\ ret.value[3].type = "OrderedDict"
        /\ startswith(FirstLine, bDate) => ret.value[2].items = <<>>

OwnTitle(ts) == splitext0(replace(ts.source, "_", " "))

(***************************************************************************)
(* C6.  Parsing writes no shared state, so the default title peek gives a  *)
(* single-column series is derived from the name of its own file, whatever *)
(* other files were parsed before or after it.                             *)
(***************************************************************************)
C6_TitleOfOwnFile ==
    title.of # 0 /\ Len(series[title.of].columns) = 1
        => title.text = OwnTitle(series[title.of])

(***************************************************************************)
(* C7.  For a NoRH file of N samples, start time T and positive cadence c, *)
(* the time axis built has exactly N timestamps, sample i (from 0) at      *)
(* T + i*c seconds, for cadences other than 1 too.                         *)
(***************************************************************************)
C7_TimeAxis ==
    Called =>
        /\ Len(norh_time) = Len(fp.data)
        /\ \A i \in 1..Len(norh_time) :
              norh_time[i][1] * fp.CDELT1.den
                = (fp.start * fp.CDELT1.den + (i - 1) * fp.CDELT1.num) * norh_time[i][2]

FourDigits(tok) == Len(tok) = 4 /\ AllDigits(tok)

(***************************************************************************)
(* C8.  A body row whose time token is not exactly four digits (two        *)
(* 2-digit groups) makes the parse fail: no table is returned from a file  *)
(* that has such a row.                                                    *)
(***************************************************************************)
C8_BadTimeTokenFails ==
    Called /\ (\E r \in 1..Len(BodyRows(fp)) : ~FourDigits(BodyRows(fp)[r][1]))
        => ret.kind = "raise"

ActsAsMarker(hline) ==
    startswith(hline, bFormat) \/ startswith(hline, bColumnDescriptions)

LastOfItsKey(header, i) ==
    \A j \in (i + 1)..Len(header) :
        contains(<<":">>, header[j]) => MetaKey(header[j]) # MetaKey(header[i])

(***************************************************************************)
(* C9.  For every header line that holds ":" and is no structural marker,  *)
(* the meta value of its key is the whole text after the first ":",        *)
(* trimmed, whatever the key: a value holding ":" is not cut at its second *)
(* delimiter.  (Of several lines with one key, the last one is looked at.) *)
(***************************************************************************)
C9_WholeValue ==
    IsRecord(ret) =>
        LET header == HeaderOf(fp)
        IN  \A i \in 1..Len(header) :
                /\ contains(<<":">>, header[i])
                /\ ~ActsAsMarker(header[i])
                /\ LastOfItsKey(header, i)
                => /\ HasKey(MetaItems, MetaKey(header[i]))
                   /\ GetItem(MetaItems, MetaKey(header[i]))
                        = strip(SubSeq(header[i], find(header[i], ":") + 1, Len(header[i])))

kFormat == <<"F", "o", "r", "m", "a", "t">>
kColumnDescriptions ==
    <<"C", "o", "l", "u", "m", "n", " ", "d", "e", "s", "c", "r", "i", "p", "t",
      "i", "o", "n", "s">>

(***************************************************************************)
(* C10.  A header line that opens or closes the field-name region (it      *)
(* starts with "; Format:" or "; Column descriptions:", whatever follows)  *)
(* adds nothing to meta: when no other line has such a key, meta has no    *)
(* key "Format" and no key "Column descriptions".                          *)
(***************************************************************************)
C10_MarkersNotInMeta ==
    IsRecord(ret) =>
        LET header == HeaderOf(fp)
        IN  (\A i \in 1..Len(header) :
                ~ActsAsMarker(header[i]) /\ contains(<<":">>, header[i])
                    => MetaKey(header[i]) \notin {kFormat, kColumnDescriptions})
            => ~HasKey(MetaItems, kFormat) /\ ~HasKey(MetaItems, kColumnDescriptions)

DateLineOf(f) == f.lines[HeaderLen(f.lines) + 1]

IsDateLine(l) ==
    /\ Len(l) = 15
    /\ AllDigits(SubSeq(l, 1, 4)) /\ l[5] = " "
    /\ AllDigits(SubSeq(l, 6, 8)) /\ l[9] = " "
    /\ AllDigits(SubSeq(l, 10, 11)) /\ l[12] = " "
    /\ AllDigits(SubSeq(l, 13, 14)) /\ l[15] = "\n"

(***************************************************************************)
(* C4.  The date anchor is the year, month and day of the first line after *)
(* the header (format YYYY DOY MM DD), and every body row with a 4-digit   *)
(* time token HHMM is indexed at anchor + HH hours + MM minutes; the rows  *)
(* of the table are the rows of the body, in their order.                  *)
(***************************************************************************)
C4_Timestamps ==
    IsRecord(ret) /\ IsDateLine(DateLineOf(fp)) =>
        LET d == DateLineOf(fp)
            rows == BodyRows(fp)
        IN  /\ Len(Table.index) = Len(rows)
            /\ \A r \in 1..Len(rows) :
                  FourDigits(rows[r][1]) =>
                      /\ Table.index[r].year = Decimal(SubSeq(d, 1, 4))
                      /\ Table.index[r].month = Decimal(SubSeq(d, 10, 11))
                      /\ Table.index[r].day = Decimal(SubSeq(d, 13, 14))
                      /\ Table.index[r].hour
                            = 10 * DigitVal(rows[r][1][1]) + DigitVal(rows[r][1][2])
                      /\ Table.index[r].minute
                            = 10 * DigitVal(rows[r][1][3]) + DigitVal(rows[r][1][4])

\* anchor 2013-01-15: the rows 2359 and 0130, in this order, are indexed at
\* 23:59 and 01:30 of that day
C4_Witness ==
    /\ IsRecord(ret)
    /\ DateLineOf(fp) = dateLine
    /\ Len(BodyRows(fp)) = 2
    /\ BodyRows(fp)[1][1] = t2359
    /\ BodyRows(fp)[2][1] = t0130
    /\ Table.index[1].hour = 23 /\ Table.index[1].minute = 59
    /\ Table.index[2].year = 2013 /\ Table.index[2].month = 1
    /\ Table.index[2].day = 15
    /\ Table.index[2].hour = 1 /\ Table.index[2].minute = 30

Opens(header) == {i \in 1..Len(header) : startswith(header[i], bColumnDescriptions)}
Closes(header) == {i \in 1..Len(header) : startswith(header[i], bFormat)}
TheOne(S) == CHOOSE i \in S : TRUE

WellFormed(f) ==
    LET header == HeaderOf(f)
        rows == BodyRows(f)
    IN  /\ Cardinality(Opens(header)) = 1
        /\ Cardinality(Closes(header)) = 1
        /\ LET c == TheOne(Opens(header))
               e == TheOne(Closes(header))
           IN  /\ c + 1 < e
               /\ \A i, j \in (c + 1)..(e - 1) :
                     i # j => MetaKey(header[i]) # MetaKey(header[j])
               /\ \A r \in 1..Len(rows) : Len(rows[r]) = e - c

(***************************************************************************)
(* C5.  For a well-formed Leveled file (one "Column descriptions:" marker, *)
(* one "Format:" marker after it, k >= 1 lines with distinct names between *)
(* them, k+1 tokens in every body row) the table has k data columns: as    *)
(* many as lines between the markers and as value tokens in every row, the *)
(* j-th column named by the j-th line and holding the j-th value token.    *)
(***************************************************************************)
C5_Columns ==
    Called /\ WellFormed(fp) =>
        LET header == HeaderOf(fp)
            rows == BodyRows(fp)
            c == TheOne(Opens(header))
            e == TheOne(Closes(header))
        IN  /\ IsRecord(ret)
            /\ Len(Table.columns) = e - c - 1
            /\ Len(Table.data) = Len(rows)
            /\ \A r \in 1..Len(rows) :
                  /\ Len(Table.data[r]) = Len(rows[r]) - 1
                  /\ \A j \in 1..(e - c - 1) :
                        Table.data[r][j] = Num(float(rows[r][j + 1]).v)
            /\ \A j \in 1..(e - c - 1) :
                  Table.columns[j]
                    = strip(replace(SubSeq(header[c + j], 1, find(header[c + j], ":") - 1),
                                    ";", " "))

\* a well-formed file with the two fields A and B, in this order
C5_Witness ==
    /\ Called
    /\ WellFormed(fp)
    /\ IsRecord(ret)
    /\ Table.columns = <<<<"A">>, <<"B">>>>
    /\ Len(Table.data) = 2
    /\ Table.data[1] = <<Num(100), Num(200)>>

Declarations(header) == {i \in 1..Len(header) : contains(bMissingData, header[i])}
SentinelText(hline) == strip(SubSeq(hline, find(hline, ":") + 1, Len(hline)))

LastOf(S) == CHOOSE i \in S : \A j \in S : j <= i

====
